---------------------------- MODULE Spec2Model ----------------------------
(***************************************************************************)
(* A model of src/src/dashboard/db.py, the Streamlit script of the Flights *)
(* Dashboard: the start-up working-directory search, the cached loaders    *)
(* (pd.read_csv, pd.to_datetime(...).dt.strftime), the date slider, the    *)
(* per-rerun date filter and the CSV download links (to_csv + base64).     *)
(*                                                                         *)
(* Text is a sequence of one-character strings, so that parsing, quoting,  *)
(* date formatting and base64 are computed character by character.  A      *)
(* Python None is the empty sequence << >>, a present value v is << v >>.  *)
(***************************************************************************)
EXTENDS Integers, Sequences, FiniteSets, TLC

(***************************************************************************)
(* Characters, str.encode() / bytes.decode() for ASCII text                *)
(***************************************************************************)

Ascii ==
    << " ", "!", "\"", "#", "$", "%", "&", "'", "(", ")", "*", "+", ",", "-", ".", "/",
       "0", "1", "2", "3", "4", "5", "6", "7", "8", "9", ":", ";", "<", "=", ">", "?",
       "@", "A", "B", "C", "D", "E", "F", "G", "H", "I", "J", "K", "L", "M", "N", "O",
       "P", "Q", "R", "S", "T", "U", "V", "W", "X", "Y", "Z", "[", "\\", "]", "^", "_",
       "GRAVE", "a", "b", "c", "d", "e", "f", "g", "h", "i", "j", "k", "l", "m", "n", "o",
       "p", "q", "r", "s", "t", "u", "v", "w", "x", "y", "z", "{", "|", "}", "~" >>
    \* (position 65 stands for the grave accent, which no text of the model uses)

NL == "\n"
QUOTE == "\""
COMMA == ","

\* ord(c): the byte csv.encode() produces for an ASCII character
Ord(c) ==
    IF c = NL THEN 10
    ELSE 31 + (CHOOSE i \in 1..Len(Ascii) : Ascii[i] = c)

\* chr(n): the character bytes.decode() produces for an ASCII byte
Chr(n) ==
    IF n = 10 THEN NL ELSE Ascii[n - 31]

Encode(text) == [i \in 1..Len(text) |-> Ord(text[i])]

Decode(bytes) == [i \in 1..Len(bytes) |-> Chr(bytes[i])]

Digits == <<"0", "1", "2", "3", "4", "5", "6", "7", "8", "9">>

IsDigit(c) == \E i \in 1..10 : Digits[i] = c

DigitVal(c) == (CHOOSE i \in 1..10 : Digits[i] = c) - 1

AllDigits(s) == Len(s) > 0 /\ \A i \in 1..Len(s) : IsDigit(s[i])

\* int(s) for a non-empty run of decimal digits
RECURSIVE DigitsToNat(_)
DigitsToNat(s) ==
    IF Len(s) = 0 THEN 0
    ELSE 10 * DigitsToNat(SubSeq(s, 1, Len(s) - 1)) + DigitVal(s[Len(s)])

\* str(n) for n >= 0
RECURSIVE NatToDigits(_)
NatToDigits(n) ==
    IF n < 10 THEN <<Digits[n + 1]>>
    ELSE Append(NatToDigits(n \div 10), Digits[(n % 10) + 1])

\* '%0wd' % n
RECURSIVE ZeroPad(_, _)
ZeroPad(s, w) == IF Len(s) >= w THEN s ELSE ZeroPad(<<"0">> \o s, w)

\* Python's str comparison a < b (code point order, shorter prefix first)
RECURSIVE StrLess(_, _)
StrLess(a, b) ==
    IF Len(b) = 0 THEN FALSE
    ELSE IF Len(a) = 0 THEN TRUE
    ELSE IF a[1] = b[1] THEN StrLess(Tail(a), Tail(b))
    ELSE Ord(a[1]) < Ord(b[1])

(***************************************************************************)
(* base64.b64encode (RFC 4648, with padding)                               *)
(***************************************************************************)

B64Alphabet ==
    << "A", "B", "C", "D", "E", "F", "G", "H", "I", "J", "K", "L", "M", "N", "O", "P",
       "Q", "R", "S", "T", "U", "V", "W", "X", "Y", "Z", "a", "b", "c", "d", "e", "f",
       "g", "h", "i", "j", "k", "l", "m", "n", "o", "p", "q", "r", "s", "t", "u", "v",
       "w", "x", "y", "z", "0", "1", "2", "3", "4", "5", "6", "7", "8", "9", "+", "/" >>

B64Char(v) == B64Alphabet[v + 1]

B64Val(c) == (CHOOSE i \in 1..64 : B64Alphabet[i] = c) - 1

RECURSIVE B64Encode(_)
B64Encode(b) ==
    IF Len(b) = 0 THEN <<>>
    ELSE IF Len(b) = 1 THEN
        LET n == b[1] * 16
        IN  <<B64Char(n \div 64), B64Char(n % 64), "=", "=">>
    ELSE IF Len(b) = 2 THEN
        LET n == (b[1] * 256 + b[2]) * 4
        IN  <<B64Char(n \div 4096), B64Char((n \div 64) % 64), B64Char(n % 64), "=">>
    ELSE
        LET n == b[1] * 65536 + b[2] * 256 + b[3]
        IN  <<B64Char(n \div 262144), B64Char((n \div 4096) % 64),
              B64Char((n \div 64) % 64), B64Char(n % 64)>>
            \o B64Encode(SubSeq(b, 4, Len(b)))

\* the inverse a browser applies to the data: URI of the download link
RECURSIVE B64Decode(_)
B64Decode(t) ==
    IF Len(t) < 4 THEN <<>>
    ELSE
        LET rest == B64Decode(SubSeq(t, 5, Len(t)))
        IN  IF t[3] = "=" THEN
                LET n == B64Val(t[1]) * 64 + B64Val(t[2])
                IN  <<n \div 16>>
            ELSE IF t[4] = "=" THEN
                LET n == B64Val(t[1]) * 4096 + B64Val(t[2]) * 64 + B64Val(t[3])
                IN  <<n \div 1024, (n \div 4) % 256>>
            ELSE
                LET n == B64Val(t[1]) * 262144 + B64Val(t[2]) * 4096
                         + B64Val(t[3]) * 64 + B64Val(t[4])
                IN  <<n \div 65536, (n \div 256) % 256, n % 256>> \o rest

(***************************************************************************)
(* DataFrame values.  A table is [columns |-> names, rows |-> rows]; a row *)
(* is a sequence of cells aligned with the columns.  A cell is a str, an   *)
(* int64, a float64 (a decimal n / 10^e) or NaN.                           *)
(***************************************************************************)

StrCell(s) == [t |-> "str", s |-> s, n |-> 0, e |-> 0]

IntCell(n) == [t |-> "int", s |-> <<>>, n |-> n, e |-> 0]

FloatCell(n, e) == [t |-> "float", s |-> <<>>, n |-> n, e |-> e]

NaN == [t |-> "nan", s |-> <<>>, n |-> 0, e |-> 0]

Table(columns, rows) == [columns |-> columns, rows |-> rows]

\* df.columns.get_loc(name); 0 when the column is absent (KeyError)
ColumnIndex(df, name) ==
    IF \E c \in 1..Len(df.columns) : df.columns[c] = name
    THEN CHOOSE c \in 1..Len(df.columns) : df.columns[c] = name
    ELSE 0

(***************************************************************************)
(* pd.read_csv(path, header=0): the C tokenizer with the default dialect   *)
(* (delimiter ',', quotechar '"', doublequote, skip_blank_lines), the      *)
(* default NA strings and per-column dtype inference.                      *)
(***************************************************************************)

\* the first position j >= i with text[j] in cs, Len(text) + 1 if none
NextAt(text, i, cs) ==
    CHOOSE j \in i..(Len(text) + 1) :
        /\ j = Len(text) + 1 \/ text[j] \in cs
        /\ \A k \in i..(j - 1) : text[k] \notin cs

\* The tokenizer from position i in state st; fld and row are the field and
\* the line being built, rows the lines finished so far.  A run of ordinary
\* characters is consumed in one step.
RECURSIVE Tokenize(_, _, _, _, _, _)
Tokenize(text, i, st, fld, row, rows) ==
    IF i > Len(text) THEN
        IF st = "IN_QUOTED" THEN [ok |-> FALSE, rows |-> rows]
        ELSE IF st = "START_RECORD" THEN [ok |-> TRUE, rows |-> rows]
        ELSE [ok |-> TRUE, rows |-> Append(rows, Append(row, fld))]
    ELSE
        LET c == text[i]
        IN  CASE st = "START_RECORD" ->
                    \* skip_blank_lines
                    IF c = NL THEN Tokenize(text, i + 1, "START_RECORD", <<>>, <<>>, rows)
                    ELSE IF c = QUOTE THEN Tokenize(text, i + 1, "IN_QUOTED", <<>>, <<>>, rows)
                    ELSE Tokenize(text, i, "IN_FIELD", <<>>, <<>>, rows)
              [] st = "START_FIELD" ->
                    IF c = QUOTE THEN Tokenize(text, i + 1, "IN_QUOTED", fld, row, rows)
                    ELSE Tokenize(text, i, "IN_FIELD", fld, row, rows)
              [] st = "IN_FIELD" ->
                    LET j == NextAt(text, i, {COMMA, NL})
                        f == fld \o SubSeq(text, i, j - 1)
                    IN  IF j > Len(text) THEN Tokenize(text, j, "IN_FIELD", f, row, rows)
                        ELSE IF text[j] = COMMA THEN
                            Tokenize(text, j + 1, "START_FIELD", <<>>, Append(row, f), rows)
                        ELSE Tokenize(text, j + 1, "START_RECORD", <<>>, <<>>,
                                      Append(rows, Append(row, f)))
              [] st = "IN_QUOTED" ->
                    LET j == NextAt(text, i, {QUOTE})
                        f == fld \o SubSeq(text, i, j - 1)
                    IN  IF j > Len(text) THEN Tokenize(text, j, "IN_QUOTED", f, row, rows)
                        ELSE Tokenize(text, j + 1, "QUOTE_IN_QUOTED", f, row, rows)
              [] OTHER -> \* QUOTE_IN_QUOTED: the character after a quote
                    IF c = QUOTE THEN
                        Tokenize(text, i + 1, "IN_QUOTED", Append(fld, c), row, rows)
                    ELSE Tokenize(text, i, "IN_FIELD", fld, row, rows)

\* the strings read_csv takes for a missing value (na_filter, default na_values)
NaValues ==
    { <<>>,
      <<"#", "N", "/", "A">>, <<"#", "N", "/", "A", " ", "N", "/", "A">>,
      <<"#", "N", "A">>, <<"-", "1", ".", "#", "I", "N", "D">>,
      <<"-", "1", ".", "#", "Q", "N", "A", "N">>, <<"-", "N", "a", "N">>,
      <<"-", "n", "a", "n">>, <<"1", ".", "#", "I", "N", "D">>,
      <<"1", ".", "#", "Q", "N", "A", "N">>, <<"<", "N", "A", ">">>,
      <<"N", "/", "A">>, <<"N", "A">>, <<"N", "U", "L", "L">>,
      <<"N", "a", "N">>, <<"n", "/", "a">>, <<"n", "a", "n">>,
      <<"n", "u", "l", "l">> }

IsNa(s) == s \in NaValues

HasSign(s) == Len(s) > 0 /\ s[1] \in {"-", "+"}

Unsigned(s) == IF HasSign(s) THEN Tail(s) ELSE s

\* position of the first '.' of s, 0 if none
DotAt(s) ==
    IF \E i \in 1..Len(s) : s[i] = "."
    THEN CHOOSE i \in 1..Len(s) : s[i] = "." /\ \A j \in 1..(i - 1) : s[j] # "."
    ELSE 0

IsIntText(s) == AllDigits(Unsigned(s))

\* a decimal with a point: digits '.' digits, one side may be empty
IsDecimalText(s) ==
    LET u == Unsigned(s)
        d == DotAt(u)
        ip == SubSeq(u, 1, d - 1)
        fp == SubSeq(u, d + 1, Len(u))
    IN  /\ d > 0
        /\ Len(ip) + Len(fp) > 0
        /\ \A i \in 1..Len(ip) : IsDigit(ip[i])
        /\ \A i \in 1..Len(fp) : IsDigit(fp[i])

IsNumberText(s) == IsIntText(s) \/ IsDecimalText(s)

Sign(s) == IF Len(s) > 0 /\ s[1] = "-" THEN -1 ELSE 1

ParseInt(s) == Sign(s) * DigitsToNat(Unsigned(s))

\* n / 10^e with no trailing zero in the fraction
RECURSIVE NormFloat(_, _)
NormFloat(n, e) ==
    IF e > 0 /\ n % 10 = 0 THEN NormFloat(n \div 10, e - 1) ELSE FloatCell(n, e)

ParseFloat(s) ==
    IF IsIntText(s) THEN FloatCell(ParseInt(s), 0)
    ELSE
        LET u == Unsigned(s)
            d == DotAt(u)
            ip == SubSeq(u, 1, d - 1)
            fp == SubSeq(u, d + 1, Len(u))
            c == NormFloat(DigitsToNat(ip \o fp), Len(fp))
        IN  FloatCell(Sign(s) * c.n, c.e)

\* the dtype read_csv infers for a column from its field texts
InferDtype(texts) ==
    LET present == {i \in 1..Len(texts) : ~IsNa(texts[i])}
    IN  IF present = {} THEN "float"
        ELSE IF \A i \in present : IsIntText(texts[i])
             THEN (IF Cardinality(present) = Len(texts) THEN "int" ELSE "float")
        ELSE IF \A i \in present : IsNumberText(texts[i]) THEN "float"
        ELSE "str"

ConvertField(s, dtype) ==
    IF IsNa(s) THEN NaN
    ELSE IF dtype = "int" THEN IntCell(ParseInt(s))
    ELSE IF dtype = "float" THEN ParseFloat(s)
    ELSE StrCell(s)

Max(a, b) == IF a >= b THEN a ELSE b

\* pd.read_csv(path, header=0) on the text of an existing file
ReadCsv(text) ==
    LET tok == Tokenize(text, 1, "START_RECORD", <<>>, <<>>, <<>>)
    IN  IF ~tok.ok THEN [err |-> "ParserError", df |-> <<>>]
        ELSE IF Len(tok.rows) = 0 THEN [err |-> "EmptyDataError", df |-> <<>>]
        ELSE
            LET header == tok.rows[1]
                data == Tail(tok.rows)
                n == Len(header)
                \* lines are padded to the width of the first data line; the
                \* fields it has beyond the header become the (implicit) index
                width == IF Len(data) = 0 THEN n ELSE Max(n, Len(data[1]))
                k == width - n
                fieldAt(j, c) ==
                    IF k + c <= Len(data[j]) THEN data[j][k + c] ELSE <<>>
                dtype == [c \in 1..n |->
                            InferDtype([j \in 1..Len(data) |-> fieldAt(j, c)])]
            IN  IF \E j \in 2..Len(data) : Len(data[j]) > width
                THEN [err |-> "ParserError", df |-> <<>>]
                ELSE [err |-> "",
                      df |-> <<Table(header,
                                [j \in 1..Len(data) |->
                                    [c \in 1..n |-> ConvertField(fieldAt(j, c), dtype[c])]])>>]

(***************************************************************************)
(* DataFrame.to_csv(index=False): csv.writer with QUOTE_MINIMAL and '\n'   *)
(***************************************************************************)

NeedsQuote(s) == \E i \in 1..Len(s) : s[i] \in {COMMA, QUOTE, NL}

RECURSIVE DoubleQuotes(_)
DoubleQuotes(s) ==
    IF Len(s) = 0 THEN <<>>
    ELSE (IF s[1] = QUOTE THEN <<QUOTE, QUOTE>> ELSE <<s[1]>>) \o DoubleQuotes(Tail(s))

QuoteMinimal(s) ==
    IF NeedsQuote(s) THEN <<QUOTE>> \o DoubleQuotes(s) \o <<QUOTE>> ELSE s

Abs(n) == IF n < 0 THEN -n ELSE n

RECURSIVE Pow10(_)
Pow10(e) == IF e = 0 THEN 1 ELSE 10 * Pow10(e - 1)

\* str(value) as to_csv writes it: repr of a float, '' for NaN (na_rep)
CellText(cell) ==
    CASE cell.t = "str" -> cell.s
      [] cell.t = "int" ->
            (IF cell.n < 0 THEN <<"-">> ELSE <<>>) \o NatToDigits(Abs(cell.n))
      [] cell.t = "float" ->
            (IF cell.n < 0 THEN <<"-">> ELSE <<>>)
            \o NatToDigits(Abs(cell.n) \div Pow10(cell.e))
            \o <<".">>
            \o (IF cell.e = 0 THEN <<"0">>
                ELSE ZeroPad(NatToDigits(Abs(cell.n) % Pow10(cell.e)), cell.e))
      [] OTHER -> <<>>

RECURSIVE JoinFields(_)
JoinFields(fields) ==
    IF Len(fields) = 0 THEN <<>>
    ELSE IF Len(fields) = 1 THEN fields[1]
    ELSE fields[1] \o <<COMMA>> \o JoinFields(Tail(fields))

\* csv.writer.writerow: a lone empty field is written as "" so that the line
\* is not blank
WriteRow(texts) ==
    IF Len(texts) = 1 /\ Len(texts[1]) = 0 THEN <<QUOTE, QUOTE, NL>>
    ELSE JoinFields([i \in 1..Len(texts) |-> QuoteMinimal(texts[i])]) \o <<NL>>

RECURSIVE WriteRows(_)
WriteRows(rows) ==
    IF Len(rows) = 0 THEN <<>>
    ELSE WriteRow([c \in 1..Len(rows[1]) |-> CellText(rows[1][c])])
         \o WriteRows(Tail(rows))

ToCsv(df) == WriteRow(df.columns) \o WriteRows(df.rows)

(***************************************************************************)
(* pd.to_datetime(series).dt.strftime('%Y-%m-%d') (lines 71, 77).  Each    *)
(* string is parsed on its own, as pandas 1.x does for an object column:   *)
(* year-month-day when the first number has four digits, day-month-year    *)
(* with a month name, and month-day-year for two short numbers unless the  *)
(* first exceeds 12.  A number is nanoseconds since the epoch.  A          *)
(* timestamp is [nat, y, m, d]; the time of day is parsed and dropped,     *)
(* since the format string prints the date only.                           *)
(***************************************************************************)

MonthNames ==
    << <<"J", "a", "n">>, <<"F", "e", "b">>, <<"M", "a", "r">>, <<"A", "p", "r">>,
       <<"M", "a", "y">>, <<"J", "u", "n">>, <<"J", "u", "l">>, <<"A", "u", "g">>,
       <<"S", "e", "p">>, <<"O", "c", "t">>, <<"N", "o", "v">>, <<"D", "e", "c">> >>

IsMonthName(s) == \E i \in 1..12 : MonthNames[i] = s

MonthOfName(s) == CHOOSE i \in 1..12 : MonthNames[i] = s

IsLeap(y) == (y % 4 = 0 /\ y % 100 # 0) \/ y % 400 = 0

DaysInMonth(y, m) ==
    IF m = 2 THEN (IF IsLeap(y) THEN 29 ELSE 28)
    ELSE IF m \in {4, 6, 9, 11} THEN 30
    ELSE 31

Timestamp(y, m, d) == [nat |-> FALSE, y |-> y, m |-> m, d |-> d]

NaT == [nat |-> TRUE, y |-> 0, m |-> 0, d |-> 0]

\* a calendar date within the range of a pandas Timestamp
ValidDate(y, m, d) ==
    /\ y >= 1678 /\ y <= 2261
    /\ m >= 1 /\ m <= 12
    /\ d >= 1 /\ d <= DaysInMonth(y, m)

\* s.split(sep) for a one-character separator set
RECURSIVE SplitOn(_, _, _, _)
SplitOn(s, seps, i, cur) ==
    IF i > Len(s) THEN <<cur>>
    ELSE IF s[i] \in seps THEN <<cur>> \o SplitOn(s, seps, i + 1, <<>>)
    ELSE SplitOn(s, seps, i + 1, Append(cur, s[i]))

ShortNumber(s) == AllDigits(s) /\ Len(s) <= 2

\* HH:MM:SS
ValidTime(s) ==
    LET p == SplitOn(s, {":"}, 1, <<>>)
    IN  /\ Len(p) = 3
        /\ \A i \in 1..3 : ShortNumber(p[i])
        /\ DigitsToNat(p[1]) < 24
        /\ DigitsToNat(p[2]) < 60
        /\ DigitsToNat(p[3]) < 60

\* the parse of one string: [ok, ts]
ParseDate(s) ==
    LET parts == SplitOn(s, {" "}, 1, <<>>)
        p == SplitOn(parts[1], {"-", "/"}, 1, <<>>)
        bad == [ok |-> FALSE, ts |-> NaT]
        make(y, m, d) ==
            IF ValidDate(y, m, d) THEN [ok |-> TRUE, ts |-> Timestamp(y, m, d)]
            ELSE bad
    IN  IF Len(parts) > 2 \/ (Len(parts) = 2 /\ ~ValidTime(parts[2])) THEN bad
        ELSE IF Len(p) # 3 THEN bad
        ELSE IF AllDigits(p[1]) /\ Len(p[1]) = 4 /\ ShortNumber(p[2]) /\ ShortNumber(p[3])
             THEN make(DigitsToNat(p[1]), DigitsToNat(p[2]), DigitsToNat(p[3]))
        ELSE IF ShortNumber(p[1]) /\ IsMonthName(p[2]) /\ AllDigits(p[3]) /\ Len(p[3]) = 4
             THEN make(DigitsToNat(p[3]), MonthOfName(p[2]), DigitsToNat(p[1]))
        ELSE IF ShortNumber(p[1]) /\ ShortNumber(p[2]) /\ AllDigits(p[3]) /\ Len(p[3]) = 4
             THEN IF DigitsToNat(p[1]) > 12
                  THEN make(DigitsToNat(p[3]), DigitsToNat(p[2]), DigitsToNat(p[1]))
                  ELSE make(DigitsToNat(p[3]), DigitsToNat(p[1]), DigitsToNat(p[2]))
        ELSE bad

\* pd.to_datetime of one element of the column
ToDatetime(cell) ==
    CASE cell.t = "nan" -> [ok |-> TRUE, ts |-> NaT]
      [] cell.t = "str" -> ParseDate(cell.s)
      [] OTHER -> \* nanoseconds since 1970-01-01, far less than a day
            [ok |-> TRUE,
             ts |-> IF cell.n < 0 THEN Timestamp(1969, 12, 31) ELSE Timestamp(1970, 1, 1)]

\* Strftime with the format '%d/%m/%Y'
StrftimeDayFirst(ts) ==
    ZeroPad(NatToDigits(ts.d), 2) \o <<"/">> \o ZeroPad(NatToDigits(ts.m), 2)
    \o <<"/">> \o ZeroPad(NatToDigits(ts.y), 4)

\* Timestamp.strftime('%Y-%m-%d')
Strftime(ts) ==
    ZeroPad(NatToDigits(ts.y), 4) \o <<"-">> \o ZeroPad(NatToDigits(ts.m), 2)
    \o <<"-">> \o ZeroPad(NatToDigits(ts.d), 2)

\* one element of series.dt.strftime('%Y-%m-%d'): NaT gives NaN
StrftimeCell(ts) == IF ts.nat THEN NaN ELSE StrCell(Strftime(ts))

\* NormalizeDate that also drops the rows without a date
NormalizeDateDropNaT(df, name) ==
    LET c == ColumnIndex(df, name)
        kept == SelectSeq(df.rows, LAMBDA row : row[c].t # "nan")
    IN  IF c = 0 THEN [err |-> "KeyError", df |-> <<>>]
        ELSE IF \E j \in 1..Len(df.rows) : ~ToDatetime(df.rows[j][c]).ok
             THEN [err |-> "ValueError", df |-> <<>>]
        ELSE [err |-> "",
              df |-> <<Table(df.columns,
                        [j \in 1..Len(kept) |->
                            [kept[j] EXCEPT ![c] = StrftimeCell(ToDatetime(@).ts)]])>>]

\* df[name] = pd.to_datetime(df[name]).dt.strftime('%Y-%m-%d')
NormalizeDate(df, name) ==
    LET c == ColumnIndex(df, name)
    IN  IF c = 0 THEN [err |-> "KeyError", df |-> <<>>]
        ELSE IF \E j \in 1..Len(df.rows) : ~ToDatetime(df.rows[j][c]).ok
             THEN [err |-> "ValueError", df |-> <<>>]
        ELSE [err |-> "",
              df |-> <<Table(df.columns,
                        [j \in 1..Len(df.rows) |->
                            [df.rows[j] EXCEPT ![c] = StrftimeCell(ToDatetime(@).ts)]])>>]

(***************************************************************************)
(* datetime.date: fromisoformat, isoformat and comparison (lines 187-190,  *)
(* 213, 216).  A date is <<y, m, d>>.                                      *)
(***************************************************************************)

\* date.fromisoformat(s): exactly YYYY-MM-DD; << >> stands for the
\* ValueError (TypeError when s is NaN, not a str)
FromIsoFormat(cell) ==
    IF cell.t # "str" THEN <<>>
    ELSE
        LET s == cell.s
        IN  IF /\ Len(s) = 10
               /\ s[5] = "-" /\ s[8] = "-"
               /\ AllDigits(SubSeq(s, 1, 4))
               /\ AllDigits(SubSeq(s, 6, 7))
               /\ AllDigits(SubSeq(s, 9, 10))
               /\ DigitsToNat(SubSeq(s, 1, 4)) >= 1
               /\ DigitsToNat(SubSeq(s, 6, 7)) \in 1..12
               /\ DigitsToNat(SubSeq(s, 9, 10)) \in
                    1..DaysInMonth(DigitsToNat(SubSeq(s, 1, 4)), DigitsToNat(SubSeq(s, 6, 7)))
            THEN << <<DigitsToNat(SubSeq(s, 1, 4)), DigitsToNat(SubSeq(s, 6, 7)),
                      DigitsToNat(SubSeq(s, 9, 10))>> >>
            ELSE <<>>

\* date.isoformat()
IsoFormat(d) ==
    ZeroPad(NatToDigits(d[1]), 4) \o <<"-">> \o ZeroPad(NatToDigits(d[2]), 2)
    \o <<"-">> \o ZeroPad(NatToDigits(d[3]), 2)

\* a <= b for dates
DateLeq(a, b) ==
    \/ a[1] < b[1]
    \/ a[1] = b[1] /\ a[2] < b[2]
    \/ a[1] = b[1] /\ a[2] = b[2] /\ a[3] <= b[3]

(***************************************************************************)
(* The DataFrame operations of the script                                  *)
(***************************************************************************)

FIRSTSEEN == <<"f", "i", "r", "s", "t", "s", "e", "e", "n">>

DATE == <<"d", "a", "t", "e">>

\* series == value, element by element: NaN and numbers never equal a str
CellEquals(cell, text) == cell.t = "str" /\ cell.s = text

RECURSIVE TakeWhere(_, _, _)
TakeWhere(rows, mask, j) ==
    IF j > Len(rows) THEN <<>>
    ELSE (IF mask[j] THEN <<rows[j]>> ELSE <<>>) \o TakeWhere(rows, mask, j + 1)

\* BoolIndex with the mask df[name] >= text
BoolIndexOnOrAfter(df, name, text) ==
    LET c == ColumnIndex(df, name)
        mask == [j \in 1..Len(df.rows) |->
                    /\ df.rows[j][c].t = "str"
                    /\ ~StrLess(df.rows[j][c].s, text)]
    IN  Table(df.columns, TakeWhere(df.rows, mask, 1))

\* df[df[name] == text] (lines 213, 216): boolean-mask indexing
BoolIndex(df, name, text) ==
    LET c == ColumnIndex(df, name)
        mask == [j \in 1..Len(df.rows) |-> CellEquals(df.rows[j][c], text)]
    IN  Table(df.columns, TakeWhere(df.rows, mask, 1))

\* df[name].max() for an object column: NaN is skipped, NaN if nothing is left
RECURSIVE MaxFrom(_, _, _, _)
MaxFrom(rows, c, j, best) ==
    IF j > Len(rows) THEN best
    ELSE IF rows[j][c].t = "str" /\ (best.t = "nan" \/ StrLess(best.s, rows[j][c].s))
         THEN MaxFrom(rows, c, j + 1, rows[j][c])
    ELSE MaxFrom(rows, c, j + 1, best)

SeriesMax(df, name) == MaxFrom(df.rows, ColumnIndex(df, name), 1, NaN)

\* min_value and the default value of the slider (lines 187, 189)
SliderMin == <<2020, 1, 1>>

\* max_value of the slider (line 190); << >> when fromisoformat raises
SliderMax(df) == FromIsoFormat(SeriesMax(df, FIRSTSEEN))

\* download_csv(data) (lines 86-90): the link handed to st.markdown
DownloadCsv(df) ==
    [mime |-> "file/csv",
     b64 |-> B64Encode(Encode(ToCsv(df))),
     download |-> "flights.csv"]

\* SeeData without the test of the checkbox
SeeDataAlways(isChecked, df) == <<DownloadCsv(df)>>

\* the body of `if st.checkbox(...): download_csv(df)` (lines 293-294,
\* 299-300, 389-390): the links rendered by the block
SeeData(isChecked, df) == IF isChecked THEN <<DownloadCsv(df)>> ELSE <<>>

(***************************************************************************)
(* The loaders (lines 65-83).  A file is << >> when the path does not      *)
(* exist and << text >> otherwise.  A loader returns [err, df].            *)
(***************************************************************************)

\* load_data(path)
LoadData(file) ==
    IF file = <<>> THEN [err |-> "FileNotFoundError", df |-> <<>>]
    ELSE ReadCsv(file[1])

\* the body of load_flights_data / load_covid_data after load_data
NormalizeLoaded(r, name) == IF r.err # "" THEN r ELSE NormalizeDate(r.df[1], name)

\* the body of the loader of dataset ds
LoaderBody(ds, file) ==
    CASE ds = "flights" -> NormalizeLoaded(LoadData(file), FIRSTSEEN)
      [] ds = "covid" -> NormalizeLoaded(LoadData(file), DATE)
      [] OTHER -> LoadData(file)

\* CachedCall that memoizes an empty table when the body raises
CachedCallStoreFailure(entry, result) ==
    IF entry # <<>>
    THEN [entry |-> entry, value |-> entry, err |-> "", ran |-> FALSE]
    ELSE IF result.err # ""
    THEN [entry |-> <<Table(<<>>, <<>>)>>, value |-> <<>>, err |-> result.err, ran |-> TRUE]
    ELSE [entry |-> result.df, value |-> result.df, err |-> "", ran |-> TRUE]

\* CachedCall that never takes the memoized value
CachedCallNoHit(entry, result) ==
    IF result.err # ""
    THEN [entry |-> <<>>, value |-> <<>>, err |-> result.err, ran |-> TRUE]
    ELSE [entry |-> result.df, value |-> result.df, err |-> "", ran |-> TRUE]

\* @st.cache around a loader: entry is the memoized value for the path
\* (<< >> if none), result what the body returns if it runs.  A hit returns
\* the entry without running the body; an exception stores nothing.
CachedCall(entry, result) ==
    IF entry # <<>>
    THEN [entry |-> entry, value |-> entry, err |-> "", ran |-> FALSE]
    ELSE IF result.err # ""
    THEN [entry |-> <<>>, value |-> <<>>, err |-> result.err, ran |-> TRUE]
    ELSE [entry |-> result.df, value |-> result.df, err |-> "", ran |-> TRUE]

\* FilterData that drops the rows from the cached tables themselves
FilterDataInPlace(fdf, cdf, cache, d) ==
    [flightDF |-> <<BoolIndex(fdf, FIRSTSEEN, IsoFormat(d))>>,
     covidDF |-> <<BoolIndex(cdf, DATE, IsoFormat(d))>>,
     cache |-> [cache EXCEPT !.flights = <<BoolIndex(fdf, FIRSTSEEN, IsoFormat(d))>>,
                             !.covid = <<BoolIndex(cdf, DATE, IsoFormat(d))>>]]

\* lines 213 and 216: both names are rebound to new tables; the tables the
\* cache holds are not touched
FilterData(fdf, cdf, cache, d) ==
    [flightDF |-> <<BoolIndex(fdf, FIRSTSEEN, IsoFormat(d))>>,
     covidDF |-> <<BoolIndex(cdf, DATE, IsoFormat(d))>>,
     cache |-> cache]

(***************************************************************************)
(* The working-directory search (lines 27-35).  A directory is the         *)
(* sequence of the names on its absolute path; << >> is the root.          *)
(***************************************************************************)

REPO_NAME ==
    <<"F", "L", "I", "G", "H", "T", "S", "D", "A", "S", "H", "B", "O", "A", "R", "D">>

\* range(5)
MaxTries == 5

IsUpper(c) == c # NL /\ Ord(c) >= 65 /\ Ord(c) <= 90

\* Lower that leaves the case as it is
NoLower(s) == s

\* str.lower()
Lower(s) == [i \in 1..Len(s) |-> IF IsUpper(s[i]) THEN Chr(Ord(s[i]) + 32) ELSE s[i]]

\* os.path.basename(os.getcwd())
Basename(dir) == IF Len(dir) = 0 THEN <<>> ELSE dir[Len(dir)]

\* the directory after os.chdir("..")
Parent(dir) == IF Len(dir) = 0 THEN dir ELSE SubSeq(dir, 1, Len(dir) - 1)

\* the test of line 32, negated
InRepo(dir) == Lower(Basename(dir)) = Lower(REPO_NAME)

(***************************************************************************)
(* Bounds and inputs                                                       *)
(***************************************************************************)

\* data lines of the flights file
MaxRows == 2

\* executions of one loader's body (a failing load runs again on each rerun)
MaxReads == 3

\* depth of the directory the script is started in
MaxDepth == 6

\* rows of the table the normalization is applied to repeatedly
MaxNormRows == 2

\* applications of the normalization to one table
MaxApply == 2

Datasets == {"flights", "covid", "cars"}

FlightsHeader == <<"f", "i", "r", "s", "t", "s", "e", "e", "n", ",", "n">>

\* data lines a flights file is made of: dates in several notations, a
\* quoted field, an unparseable date, a line with a field too many
FlightLines ==
    { <<"2", "0", "2", "0", "-", "0", "1", "-", "0", "1", ",", "1">>,
      <<"2", "0", "2", "0", "-", "0", "1", "-", "0", "2", " ", "1", "0", ":", "3", "0", ":", "0", "0", ",", "x">>,
      <<"0", "3", "/", "J", "a", "n", "/", "2", "0", "2", "0", ",", "\"", "a", ",", "b", "\"">>,
      <<"n", "o", "p", "e", ",", "1">>,
      <<"2", "0", "2", "0", "-", "0", "1", "-", "0", "1", ",", "1", ",", "9">> }

RECURSIVE JoinLines(_)
JoinLines(lines) ==
    IF Len(lines) = 0 THEN <<>> ELSE lines[1] \o <<NL>> \o JoinLines(Tail(lines))

\* a sound flights file: dates out of order, one of them twice
GoodFlightsFile ==
    <<<<"f", "i", "r", "s", "t", "s", "e", "e", "n", ",", "n", NL, "2", "0", "2", "0", "-", "0", "1", "-", "0", "2", ",", "1", NL, "0", "1", "/", "J", "a", "n", "/", "2", "0", "2", "0", ",", "x", NL, "2", "0", "2", "0", "-", "0", "1", "-", "0", "2", ",", "3", NL>>>>

\* no file, a file without the date column, a file with a missing date, and
\* the files made of up to MaxRows of the lines above
FlightsFiles ==
    { <<>>,
      <<<<"s", "e", "e", "n", ",", "n", NL, "2", "0", "2", "0", "-", "0", "1", "-", "0", "1", ",", "1", NL>>>>,
      <<<<"f", "i", "r", "s", "t", "s", "e", "e", "n", ",", "n", NL, ",", "5", NL, "0", "1", "/", "0", "2", "/", "2", "0", "2", "0", ",", "7", NL>>>>,
      GoodFlightsFile }
    \cup { <<JoinLines(<<FlightsHeader>> \o ls)>> :
             ls \in UNION {[1..k -> FlightLines] : k \in 0..MaxRows} }

CovidFiles ==
    { <<>>,
      <<<<"d", "a", "t", "e", ",", "c", NL, "2", "0", "2", "0", "-", "0", "1", "-", "0", "1", ",", "5", NL, "0", "1", "/", "0", "2", "/", "2", "0", "2", "0", ",", "6", NL, "2", "0", "2", "0", "-", "0", "1", "-", "0", "1", ",", "8", NL>>>>,
      <<<<"d", "a", "t", "e", ",", "c", NL, "2", "0", "2", "0", "-", "0", "1", "-", "0", "1", ",", "5", NL, "s", "o", "o", "n", ",", "6", NL>>>>,
      <<<<"d", "a", "y", ",", "c", NL, "2", "0", "2", "0", "-", "0", "1", "-", "0", "1", ",", "5", NL>>>>,
      <<<<"d", "a", "t", "e", ",", "c", NL, "2", "0", "2", "0", "-", "0", "1", "-", "0", "1", ",", "5", NL, "2", "0", "2", "0", "-", "0", "1", "-", "0", "2", ",", "6", ",", "7", NL>>>> }

GoodCovidFile ==
    <<<<"d", "a", "t", "e", ",", "c", NL, "2", "0", "2", "0", "-", "0", "1", "-", "0", "1", ",", "5", NL, "0", "1", "/", "0", "2", "/", "2", "0", "2", "0", ",", "6", NL, "2", "0", "2", "0", "-", "0", "1", "-", "0", "1", ",", "8", NL>>>>

GoodCarsFile ==
    <<<<"l", "a", "t", ",", "l", "n", "g", NL, "1", ".", "5", ",", "-", "2", NL, "5", "2", ".", "2", "5", ",", "7", NL>>>>

CarsFiles == { <<>>, GoodCarsFile }

\* the files under ./data/external: one dataset varies, the others are sound
Disks ==
    { [flights |-> f, covid |-> GoodCovidFile, cars |-> GoodCarsFile] : f \in FlightsFiles }
    \cup { [flights |-> GoodFlightsFile, covid |-> c, cars |-> k] :
             c \in CovidFiles, k \in CarsFiles }

\* the dates the user may drag the slider to, where the slider allows them
DateUniverse == { <<2019, 12, 31>>, <<2020, 1, 1>>, <<2020, 1, 2>>, <<2020, 1, 3>> }

\* names of the directories above the script
DirNames ==
    { <<"F", "l", "i", "g", "h", "t", "s", "D", "a", "s", "h", "b", "o", "a", "r", "d">>,
      <<"s", "r", "c">>,
      <<"d", "a", "s", "h", "b", "o", "a", "r", "d">> }

\* values of a date column as load_data returns it (str or NaN)
RawDateCells ==
    { NaN,
      StrCell(<<"2", "0", "2", "0", "-", "0", "1", "-", "0", "1">>),
      StrCell(<<"2", "0", "2", "0", "-", "1", "-", "5">>),
      StrCell(<<"2", "0", "2", "0", "-", "0", "1", "-", "0", "2", " ", "1", "0", ":", "3", "0", ":", "0", "0">>),
      StrCell(<<"0", "1", "/", "J", "a", "n", "/", "2", "0", "2", "0">>),
      StrCell(<<"1", "3", "/", "0", "1", "/", "2", "0", "2", "0">>),
      StrCell(<<"0", "1", "/", "1", "3", "/", "2", "0", "2", "0">>),
      StrCell(<<"0", "2", "/", "0", "3", "/", "2", "0", "2", "0">>),
      StrCell(<<"2", "9", "/", "0", "2", "/", "2", "0", "2", "0">>),
      StrCell(<<"2", "0", "1", "9", "-", "0", "2", "-", "2", "9">>),
      StrCell(<<"3", "1", "-", "1", "2", "-", "2", "0", "1", "9">>),
      StrCell(<<"s", "o", "o", "n">>),
      StrCell(<<"2", "0", "2", "0", "-", "1", "3", "-", "0", "1">>) }

(***************************************************************************)
(* State                                                                   *)
(***************************************************************************)

VARIABLES
    disk,       \* the three source files (never written)
    mem,        \* st.cache: per loader, the memoized table or << >>
    reads,      \* per loader, how often its body ran (file read, parse)
    computes,   \* per loader, how often its body ran to completion
    loaded,     \* per loader, what load_data returned in its last run
    pc,         \* the statement the script run is at, "done" or "error"
    error,      \* the exception that ended the run, "" if none
    flightDF,   \* the script's globals, << >> while unbound
    covidDF,
    carsDF,
    date,
    slider,     \* the slider's widget state
    checked,    \* the three checkboxes' widget state
    links,      \* the download links rendered in this run
    first,      \* per date, the tables the first filter by it produced
    revisited,  \* a date has been filtered by a second time
    cwd,        \* the working directory
    startDir,   \* the working directory the script was started in
    tries,      \* iterations of the directory loop
    chdirs,     \* os.chdir("..") calls
    searching,  \* the directory loop is running
    normDF,     \* a table the normalization is applied to
    normIn,     \* that table as load_data returned it
    normOnce,   \* << >>, or the table after the first application
    normCount,  \* applications so far
    normErr     \* the exception an application raised, "" if none

scriptVars == <<pc, error, flightDF, covidDF, carsDF, date, slider, checked, links>>

cacheVars == <<mem, reads, computes, loaded>>

mainVars == <<disk, mem, reads, computes, loaded, pc, error, flightDF, covidDF, carsDF,
              date, slider, checked, links, first, revisited>>

cwdVars == <<cwd, startDir, tries, chdirs, searching>>

normVars == <<normDF, normIn, normOnce, normCount, normErr>>

vars == <<mainVars, cwdVars, normVars>>

NoTables == [ds \in Datasets |-> <<>>]

(***************************************************************************)
(* The dashboard: one script run per user interaction                      *)
(***************************************************************************)

\* the process starts and the script runs for the first time
MainStart ==
    /\ mem = NoTables
    /\ reads = [ds \in Datasets |-> 0]
    /\ computes = [ds \in Datasets |-> 0]
    /\ loaded = NoTables
    /\ pc = "load_flights"
    /\ error = ""
    /\ flightDF = <<>>
    /\ covidDF = <<>>
    /\ carsDF = <<>>
    /\ date = <<>>
    /\ slider = [value |-> SliderMin, lo |-> SliderMin, hi |-> SliderMin, rendered |-> FALSE]
    /\ checked = [ds \in Datasets |-> FALSE]
    /\ links = NoTables
    /\ first = [d \in DateUniverse |-> <<>>]
    /\ revisited = FALSE

MainInit ==
    /\ disk \in Disks
    /\ MainStart

\* the cache and the counters after a call of the cached loader of ds
CacheAfter(ds, call) ==
    /\ mem' = [mem EXCEPT ![ds] = call.entry]
    /\ reads' = IF call.ran THEN [reads EXCEPT ![ds] = @ + 1] ELSE reads
    /\ computes' = IF call.ran /\ call.err = ""
                   THEN [computes EXCEPT ![ds] = @ + 1] ELSE computes
    /\ loaded' = IF call.ran THEN [loaded EXCEPT ![ds] = LoadData(disk[ds]).df]
                 ELSE loaded

\* an exception ends the run: nothing is bound
Raise(exc) ==
    /\ pc' = "error"
    /\ error' = exc

\* line 109: flightDF = load_flights_data(path)
LoadFlights ==
    /\ pc = "load_flights"
    /\ LET call == CachedCall(mem.flights, LoaderBody("flights", disk.flights))
       IN  /\ CacheAfter("flights", call)
           /\ IF call.err # ""
              THEN Raise(call.err) /\ UNCHANGED flightDF
              ELSE pc' = "load_covid" /\ flightDF' = call.value /\ UNCHANGED error
    /\ UNCHANGED <<disk, covidDF, carsDF, date, slider, checked, links, first, revisited>>
    /\ UNCHANGED <<cwdVars, normVars>>

\* line 112: covidDF = load_covid_data(path)
LoadCovid ==
    /\ pc = "load_covid"
    /\ LET call == CachedCall(mem.covid, LoaderBody("covid", disk.covid))
       IN  /\ CacheAfter("covid", call)
           /\ IF call.err # ""
              THEN Raise(call.err) /\ UNCHANGED covidDF
              ELSE pc' = "load_cars" /\ covidDF' = call.value /\ UNCHANGED error
    /\ UNCHANGED <<disk, flightDF, carsDF, date, slider, checked, links, first, revisited>>
    /\ UNCHANGED <<cwdVars, normVars>>

\* line 115: carsDF = load_cars_data(path)
LoadCars ==
    /\ pc = "load_cars"
    /\ LET call == CachedCall(mem.cars, LoaderBody("cars", disk.cars))
       IN  /\ CacheAfter("cars", call)
           /\ IF call.err # ""
              THEN Raise(call.err) /\ UNCHANGED carsDF
              ELSE pc' = "slider" /\ carsDF' = call.value /\ UNCHANGED error
    /\ UNCHANGED <<disk, flightDF, covidDF, date, slider, checked, links, first, revisited>>
    /\ UNCHANGED <<cwdVars, normVars>>

\* lines 185-191: date = st.slider(value=2020-01-01, min_value=2020-01-01,
\* max_value=fromisoformat(flightDF["firstseen"].max())); the widget returns
\* the value the user left it at
Slider ==
    /\ pc = "slider"
    /\ LET hi == SliderMax(flightDF[1])
       IN  IF hi = <<>>
           THEN Raise("TypeError") /\ UNCHANGED <<date, slider>>
           ELSE IF ~DateLeq(SliderMin, hi[1])
           THEN Raise("StreamlitAPIException") /\ UNCHANGED <<date, slider>>
           ELSE /\ date' = <<slider.value>>
                /\ slider' = [slider EXCEPT !.lo = SliderMin, !.hi = hi[1],
                                            !.rendered = TRUE]
                /\ pc' = "filter"
                /\ UNCHANGED error
    /\ UNCHANGED <<disk, cacheVars, flightDF, covidDF, carsDF, checked, links, first, revisited>>
    /\ UNCHANGED <<cwdVars, normVars>>

\* lines 213-216
Filter ==
    /\ pc = "filter"
    /\ LET r == FilterData(flightDF[1], covidDF[1], mem, date[1])
       IN  /\ flightDF' = r.flightDF
           /\ covidDF' = r.covidDF
           /\ mem' = r.cache
           /\ first' = [first EXCEPT ![date[1]] =
                          IF @ = <<>>
                          THEN <<[flightDF |-> r.flightDF, covidDF |-> r.covidDF]>>
                          ELSE @]
           /\ revisited' = (revisited \/ first[date[1]] # <<>>)
    /\ pc' = "see_flights"
    /\ UNCHANGED <<disk, reads, computes, loaded, error, carsDF, date, slider, checked,
                   links>>
    /\ UNCHANGED <<cwdVars, normVars>>

\* lines 293-296
SeeFlights ==
    /\ pc = "see_flights"
    /\ links' = [links EXCEPT !.flights = SeeData(checked.flights, flightDF[1])]
    /\ pc' = "see_covid"
    /\ UNCHANGED <<disk, cacheVars, error, flightDF, covidDF, carsDF, date, slider,
                   checked, first, revisited>>
    /\ UNCHANGED <<cwdVars, normVars>>

\* lines 299-302
SeeCovid ==
    /\ pc = "see_covid"
    /\ links' = [links EXCEPT !.covid = SeeData(checked.covid, covidDF[1])]
    /\ pc' = "see_cars"
    /\ UNCHANGED <<disk, cacheVars, error, flightDF, covidDF, carsDF, date, slider,
                   checked, first, revisited>>
    /\ UNCHANGED <<cwdVars, normVars>>

\* lines 389-392, the last statement of the script
SeeCars ==
    /\ pc = "see_cars"
    /\ links' = [links EXCEPT !.cars = SeeData(checked.cars, carsDF[1])]
    /\ pc' = "done"
    /\ UNCHANGED <<disk, cacheVars, error, flightDF, covidDF, carsDF, date, slider,
                   checked, first, revisited>>
    /\ UNCHANGED <<cwdVars, normVars>>

\* a rerun: the script starts from the top with fresh globals and an empty
\* page; the cache and the widget state are kept
Restart ==
    /\ \A ds \in Datasets : reads[ds] < MaxReads
    /\ pc' = "load_flights"
    /\ error' = ""
    /\ flightDF' = <<>>
    /\ covidDF' = <<>>
    /\ carsDF' = <<>>
    /\ date' = <<>>
    /\ links' = NoTables
    /\ UNCHANGED <<disk, cacheVars, first, revisited>>
    /\ UNCHANGED <<cwdVars, normVars>>

\* the user reruns the page
Rerun ==
    /\ pc \in {"done", "error"}
    /\ Restart
    /\ UNCHANGED <<slider, checked>>

\* the user drags the slider to another date of its range
MoveSlider ==
    /\ pc = "done"
    /\ slider.rendered
    /\ \E d \in DateUniverse :
        /\ d # slider.value
        /\ DateLeq(slider.lo, d)
        /\ DateLeq(d, slider.hi)
        /\ slider' = [slider EXCEPT !.value = d]
    /\ Restart
    /\ UNCHANGED checked

\* the user ticks or clears one of the three checkboxes
Toggle ==
    /\ pc = "done"
    /\ \E ds \in Datasets : checked' = [checked EXCEPT ![ds] = ~@]
    /\ Restart
    /\ UNCHANGED slider

MainNext ==
    \/ LoadFlights
    \/ LoadCovid
    \/ LoadCars
    \/ Slider
    \/ Filter
    \/ SeeFlights
    \/ SeeCovid
    \/ SeeCars
    \/ Rerun
    \/ MoveSlider
    \/ Toggle

(***************************************************************************)
(* The directory loop at the top of the script (lines 31-35)               *)
(***************************************************************************)

CwdInit ==
    /\ startDir \in UNION {[1..k -> DirNames] : k \in 0..MaxDepth}
    /\ cwd = startDir
    /\ tries = 0
    /\ chdirs = 0
    /\ searching = TRUE

\* an iteration that finds another directory name: os.chdir("..")
ChdirUp ==
    /\ searching
    /\ tries < MaxTries
    /\ ~InRepo(cwd)
    /\ cwd' = Parent(cwd)
    /\ tries' = tries + 1
    /\ chdirs' = chdirs + 1
    /\ UNCHANGED <<startDir, searching>>
    /\ UNCHANGED <<mainVars, normVars>>

\* an iteration that finds the repository's name: break
Break ==
    /\ searching
    /\ tries < MaxTries
    /\ InRepo(cwd)
    /\ tries' = tries + 1
    /\ searching' = FALSE
    /\ UNCHANGED <<cwd, startDir, chdirs>>
    /\ UNCHANGED <<mainVars, normVars>>

\* range(5) is used up
Exhausted ==
    /\ searching
    /\ tries = MaxTries
    /\ searching' = FALSE
    /\ UNCHANGED <<cwd, startDir, tries, chdirs>>
    /\ UNCHANGED <<mainVars, normVars>>

CwdNext == ChdirUp \/ Break \/ Exhausted

(***************************************************************************)
(* The normalization statement applied again and again to one table        *)
(***************************************************************************)

\* tables with a date column and a second column
NormTables ==
    UNION { { Table(<<FIRSTSEEN, <<"n">>>>, [j \in 1..k |-> <<col[j], IntCell(j)>>]) :
                col \in [1..k -> RawDateCells] } : k \in 1..MaxNormRows }

NormInit ==
    /\ normIn \in NormTables
    /\ normDF = normIn
    /\ normOnce = <<>>
    /\ normCount = 0
    /\ normErr = ""

\* df['firstseen'] = pd.to_datetime(df['firstseen']).dt.strftime('%Y-%m-%d')
NormApply ==
    /\ normErr = ""
    /\ normCount < MaxApply
    /\ NormalizeDate(normDF, FIRSTSEEN).err = ""
    /\ normDF' = NormalizeDate(normDF, FIRSTSEEN).df[1]
    /\ normOnce' = IF normCount = 0 THEN <<normDF'>> ELSE normOnce
    /\ normCount' = normCount + 1
    /\ UNCHANGED <<normIn, normErr>>
    /\ UNCHANGED <<mainVars, cwdVars>>

\* the statement raises: the table is left as it was
NormRaise ==
    /\ normErr = ""
    /\ normCount < MaxApply
    /\ NormalizeDate(normDF, FIRSTSEEN).err # ""
    /\ normErr' = NormalizeDate(normDF, FIRSTSEEN).err
    /\ UNCHANGED <<normDF, normIn, normOnce, normCount>>
    /\ UNCHANGED <<mainVars, cwdVars>>

NormNext == NormApply \/ NormRaise

(***************************************************************************)
(* Specifications                                                          *)
(***************************************************************************)

\* the state of a part that is not running
CwdFound ==
    /\ startDir = <<>>
    /\ cwd = <<>>
    /\ tries = 0
    /\ chdirs = 0
    /\ searching = FALSE

NormIdle ==
    /\ normIn = Table(<<FIRSTSEEN>>, <<>>)
    /\ normDF = normIn
    /\ normOnce = <<>>
    /\ normCount = 0
    /\ normErr = ""

MainIdle ==
    /\ disk = [flights |-> GoodFlightsFile, covid |-> GoodCovidFile, cars |-> GoodCarsFile]
    /\ MainStart

\* the dashboard
Init == MainInit /\ CwdFound /\ NormIdle

Next == MainNext

Spec == Init /\ [][Next]_vars

\* the directory loop
InitCwd == MainIdle /\ NormIdle /\ CwdInit

SpecCwd == InitCwd /\ [][CwdNext]_vars

\* the normalization as a function
InitNorm == MainIdle /\ CwdFound /\ NormInit

SpecNorm == InitNorm /\ [][NormNext]_vars

(***************************************************************************)
(* Properties                                                              *)
(***************************************************************************)

\* the positions of a run at which both tables have been filtered
AfterFilter == {"see_flights", "see_covid", "see_cars", "done"}

DateColumn(ds) == IF ds = "flights" THEN FIRSTSEEN ELSE DATE

\* res holds exactly the rows of src whose column name is the str text, in
\* the order of src
IsFilterOf(res, src, name, text) ==
    LET c == ColumnIndex(src, name)
        hits == {j \in 1..Len(src.rows) : src.rows[j][c] = StrCell(text)}
        nth(k) == CHOOSE j \in hits : Cardinality({i \in hits : i < j}) = k - 1
    IN  /\ res.columns = src.columns
        /\ Len(res.rows) = Cardinality(hits)
        /\ \A k \in 1..Len(res.rows) :
            /\ res.rows[k] = src.rows[nth(k)]
            /\ res.rows[k][c] = StrCell(text)
        /\ (hits = {} => res.rows = <<>>)

\* C1: after the filter statements of a run, flightDF and covidDF hold
\* exactly the rows of the cached tables whose date column equals the
\* selected date, in source order (none added, none reordered, none if the
\* date does not occur).
C1_FilterExact ==
    pc \in AfterFilter =>
        /\ IsFilterOf(flightDF[1], mem.flights[1], FIRSTSEEN, IsoFormat(date[1]))
        /\ IsFilterOf(covidDF[1], mem.covid[1], DATE, IsoFormat(date[1]))

\* two of three rows survive, the one between them is dropped
C1_Witness ==
    /\ pc = "done"
    /\ Len(mem.flights[1].rows) = 3
    /\ Len(flightDF[1].rows) = 2
    /\ flightDF[1].rows[2] = mem.flights[1].rows[3]

\* C2: applying the normalization statement again to a table it has
\* normalized leaves the table as the first application left it.
C2_Idempotent == normCount >= 2 => <<normDF>> = normOnce

\* a second application has run on a table the first one changed
C2_Witness == normCount >= 2 /\ normDF # normIn

\* df is raw with nothing but the column name rewritten
OnlyColumnChanged(df, raw, name) ==
    LET c == ColumnIndex(raw, name)
    IN  /\ df.columns = raw.columns
        /\ Len(df.rows) = Len(raw.rows)
        /\ \A j \in 1..Len(raw.rows) :
            /\ Len(df.rows[j]) = Len(raw.rows[j])
            /\ \A k \in 1..Len(raw.rows[j]) : k # c => df.rows[j][k] = raw.rows[j][k]
            /\ (raw.rows[j][c].t = "nan") = (df.rows[j][c].t = "nan")

\* C3: a cached flights or covid table differs from what load_data returned
\* in the date column only (same columns, same number and order of rows,
\* same other values), and the filtered tables never have more rows than
\* the cached ones.
C3_Frame ==
    /\ \A ds \in {"flights", "covid"} :
        mem[ds] # <<>> => OnlyColumnChanged(mem[ds][1], loaded[ds][1], DateColumn(ds))
    /\ mem.cars # <<>> => mem.cars = loaded.cars
    /\ pc \in AfterFilter =>
        /\ Len(flightDF[1].rows) <= Len(mem.flights[1].rows)
        /\ Len(covidDF[1].rows) <= Len(mem.covid[1].rows)

\* the normalization rewrote the dates of a table with a missing date
C3_Witness ==
    /\ pc = "done"
    /\ mem.flights # loaded.flights
    /\ \E j \in 1..Len(mem.flights[1].rows) : mem.flights[1].rows[j][1] = NaN

\* the table a download link of this run was made from
Exported(ds) ==
    CASE ds = "flights" -> flightDF
      [] ds = "covid" -> covidDF
      [] OTHER -> carsDF

\* the text a browser saves from a download link
Downloaded(link) == Decode(B64Decode(link.b64))

\* C4: load_data of the decoded payload of every download link gives back
\* the exported table: same columns, rows and values.
C4_RoundTrip ==
    \A ds \in Datasets :
        links[ds] # <<>> =>
            ReadCsv(Downloaded(links[ds][1])) = [err |-> "", df |-> Exported(ds)]

LoadPcs == {"load_flights", "load_covid", "load_cars"}

DatasetAt(p) ==
    CASE p = "load_flights" -> "flights"
      [] p = "load_covid" -> "covid"
      [] OTHER -> "cars"

LoadErrors == {"FileNotFoundError", "ParserError", "EmptyDataError", "ValueError", "KeyError"}

\* C5: a loader call that fails ends the run with the exception, after one
\* execution of its body, with the cache and the script's tables exactly as
\* they were (nothing stored for the failed loader); a missing file always
\* fails so.
C5_FailureAtomic ==
    [][ /\ (pc \in LoadPcs /\ pc' = "error") =>
            /\ error' \in LoadErrors
            /\ mem' = mem
            /\ mem[DatasetAt(pc)] = <<>>
            /\ <<flightDF', covidDF', carsDF'>> = <<flightDF, covidDF, carsDF>>
            /\ reads'[DatasetAt(pc)] = reads[DatasetAt(pc)] + 1
            /\ computes' = computes
        /\ (pc \in LoadPcs /\ disk[DatasetAt(pc)] = <<>>) =>
            (pc' = "error" /\ error' = "FileNotFoundError")
      ]_vars

\* the covid loader failed on a date, again after a rerun, with the flights
\* table cached
C5_Witness ==
    /\ pc = "error"
    /\ error = "ValueError"
    /\ mem.flights # <<>>
    /\ mem.covid = <<>>
    /\ reads.covid = 2

\* the dates of a normalized column
ColumnDates(df, name) ==
    LET c == ColumnIndex(df, name)
    IN  {FromIsoFormat(df.rows[j][c])[1] :
            j \in {i \in 1..Len(df.rows) : df.rows[i][c].t = "str"}}

Earliest(S) == CHOOSE d \in S : \A e \in S : DateLeq(d, e)

Latest(S) == CHOOSE d \in S : \A e \in S : DateLeq(e, d)

\* C6: the date the slider returns, which is the date passed to the filter,
\* lies between the earliest and the latest date of the cached flights
\* table's firstseen column.
C6_WithinDatasetRange ==
    date # <<>> =>
        /\ DateLeq(Earliest(ColumnDates(mem.flights[1], FIRSTSEEN)), date[1])
        /\ DateLeq(date[1], Latest(ColumnDates(mem.flights[1], FIRSTSEEN)))

\* C7 as stated: no loader body runs more than once.
C7_AtMostOneRead == \A ds \in Datasets : reads[ds] <= 1

\* C7, amended: no loader body runs to completion more than once, and once
\* a table is cached its loader's body never runs again and the cached
\* table stays.
C7_OncePerSuccess ==
    [][ \A ds \in Datasets :
            /\ computes'[ds] <= 1
            /\ mem[ds] # <<>> =>
                /\ reads'[ds] = reads[ds]
                /\ computes'[ds] = computes[ds]
                /\ mem'[ds] = mem[ds]
      ]_vars

\* a later run, after the slider was moved, was served from the cache
C7_Witness ==
    /\ pc = "done"
    /\ slider.value # SliderMin
    /\ \A ds \in Datasets : reads[ds] = 1 /\ computes[ds] = 1

\* C8: no step changes a cached table, and the filtered tables of a run are
\* those the first run with the same date produced.
C8_Independent ==
    [][ /\ \A ds \in Datasets : mem[ds] # <<>> => mem'[ds] = mem[ds]
        /\ pc' \in AfterFilter =>
            /\ first'[date'[1]] # <<>>
            /\ flightDF' = first'[date'[1]][1].flightDF
            /\ covidDF' = first'[date'[1]][1].covidDF
      ]_vars

\* a date was selected again after another one, and rows match it
C8_Witness ==
    /\ pc = "done"
    /\ revisited
    /\ \E d \in DateUniverse : d # date[1] /\ first[d] # <<>>
    /\ Len(flightDF[1].rows) > 0

\* the statement after which the link of a dataset is on the page
LinkedFrom(ds) ==
    CASE ds = "flights" -> {"see_covid", "see_cars", "done"}
      [] ds = "covid" -> {"see_cars", "done"}
      [] OTHER -> {"done"}

\* C9: in every run, once the checkbox block of flights (covid) has run,
\* there is a link iff the checkbox is checked, and its payload decodes to
\* the CSV text of the cached table filtered by the date the slider is at;
\* before the block has run there is no link.
C9_ExportFollowsFilter ==
    \A ds \in {"flights", "covid"} :
        IF pc \in LinkedFrom(ds) /\ checked[ds]
        THEN /\ links[ds] # <<>>
             /\ Downloaded(links[ds][1])
                    = ToCsv(BoolIndex(mem[ds][1], DateColumn(ds), IsoFormat(slider.value)))
        ELSE links[ds] = <<>>

\* both boxes checked, the slider moved, rows exported
C9_Witness ==
    /\ pc = "done"
    /\ checked.flights /\ checked.covid
    /\ slider.value # SliderMin
    /\ links.flights # <<>> /\ links.covid # <<>>
    /\ Len(flightDF[1].rows) > 0

\* a and b are equal up to the case of ASCII letters
EqualIgnoreCase(a, b) ==
    /\ Len(a) = Len(b)
    /\ \A i \in 1..Len(a) :
        \/ a[i] = b[i]
        \/ /\ a[i] # NL
           /\ b[i] # NL
           /\ \/ (Ord(a[i]) \in 65..90 /\ Ord(b[i]) = Ord(a[i]) + 32)
              \/ (Ord(b[i]) \in 65..90 /\ Ord(a[i]) = Ord(b[i]) + 32)

\* the directory j levels above dir (the root at most)
Ancestor(dir, j) == SubSeq(dir, 1, Max(0, Len(dir) - j))

Matches(dir) == Len(dir) > 0 /\ EqualIgnoreCase(dir[Len(dir)], REPO_NAME)

\* C10: the loop makes at most 5 iterations and 5 directory changes, never
\* passes a directory named like the repository, changes nothing if it
\* starts in one, and ends in the nearest such directory among the start
\* and its first four ancestors, or else five levels up (at the root if
\* that is nearer).
C10_Search ==
    /\ tries <= 5 /\ chdirs <= 5 /\ chdirs <= tries
    /\ cwd = Ancestor(startDir, chdirs)
    /\ \A j \in 0..(chdirs - 1) : ~Matches(Ancestor(startDir, j))
    /\ ~searching =>
        IF \E j \in 0..4 : Matches(Ancestor(startDir, j))
        THEN Matches(cwd)
        ELSE cwd = Ancestor(startDir, 5) /\ chdirs = 5

\* the loop stopped two levels up, in a directory whose name differs from
\* REPO_NAME in case
C10_Witness ==
    /\ ~searching
    /\ chdirs = 2
    /\ Len(startDir) = Len(cwd) + 2
    /\ Matches(cwd)
    /\ cwd[Len(cwd)] # REPO_NAME

=============================================================================
